---- MODULE Spec2Model ----
(***************************************************************************)
(* A state-machine model of the Course-Creator repository: the web-search  *)
(* RAG pipeline of src/web_search_rag.py (WebContentFetcher, VectorBuilder, *)
(* WebSearchRAG) and the lesson generation of src/build_course.py that     *)
(* calls it.                                                               *)
(*                                                                         *)
(* Texts.  A string is a sequence of pieces.  Piece 0 is a run of          *)
(* whitespace, piece 1 is a piece that begins with the warning sign the    *)
(* fetcher uses as its error marker, the other pieces are plain words.  A  *)
(* piece is also the unit the text splitter cuts a document into.          *)
(*                                                                         *)
(* Calls.  Every method is one action.  The variable last records the last *)
(* call: its name, its arguments, whether it returned or raised, what it   *)
(* returned, and the calls it made, in the order the code makes them.      *)
(*                                                                         *)
(* Specifications.  Spec is one WebSearchRAG object and its VectorBuilder  *)
(* under any sequence of calls; SpecFetch is WebContentFetcher.search over *)
(* the answers the web may give; SpecBuilder is one CourseBuilder.         *)
(***************************************************************************)
EXTENDS Integers, Sequences, FiniteSets, TLC

\* ------------------------------------------------------------------ bounds
MaxDocLen == 2
MaxStore == 2
MaxTopK == 3
MaxHits == 1
MaxFetchHits == 3
MaxFailAt == 2
MaxTopic == 1
MaxModule == 2
MaxLesson == 2

\* --------------------------------------------------------------- constants
\* results[:5] in WebSearchRAG.build_index
MaxSources == 5
\* top_chunks: int = 5 in WebSearchRAG.__init__
DefaultTopChunks == 5

Whitespace == 0
Marker == 1
\* Whitespace, a piece that starts with the marker, a plain word.
Pieces == 0..2

Min(a, b) == IF a < b THEN a ELSE b

RECURSIVE SeqsUpTo(_, _)
SeqsUpTo(S, n) ==
    IF n = 0 THEN {<<>>}
    ELSE LET shorter == SeqsUpTo(S, n - 1)
         IN  shorter \cup {Append(s, x) : s \in {t \in shorter : Len(t) = n - 1}, x \in S}

\* The texts a caller may pass to add_text.
Texts == SeqsUpTo(Pieces, MaxDocLen)

\* What the search provider and the pages it names may answer: a hit is its
\* url (0: the hit has neither "href" nor "url"), the outcome of fetching the
\* page ("ok", or "error" when requests raises: transport, timeout, status)
\* and the page's readable text.
WebHits ==
    { [url |-> 0, fetch |-> "ok",    page |-> <<>>],
      [url |-> 1, fetch |-> "error", page |-> <<>>],
      [url |-> 2, fetch |-> "ok",    page |-> <<>>],
      [url |-> 3, fetch |-> "ok",    page |-> <<Marker, 2>>],
      [url |-> 4, fetch |-> "ok",    page |-> <<Whitespace, 2, Marker>>] }

\* The provider's answer to one search: it raises, or it returns hits.
Providers(n) ==
    {[raises |-> TRUE, hits |-> <<>>]}
        \cup {[raises |-> FALSE, hits |-> h] : h \in SeqsUpTo(WebHits, n)}

RagProviders == Providers(MaxHits)
FetchProviders == Providers(MaxFetchHits)

\* What the completion endpoint may do with a request of the pipeline.
LLMOutcomes == {"raise", "text"}

\* What it may do with a lesson request: raise, or answer with text that is
\* or is not JSON.
LessonLLMOutcomes == {"raise", "malformed", "json"}

VARIABLES
    index,       \* VectorBuilder.index: the vectors of the flat L2 index, in insertion order
    docs_store,  \* VectorBuilder.docs_store: the chunk texts, in insertion order
    sources,     \* WebSearchRAG.sources
    top_chunks,  \* WebSearchRAG.top_chunks (constructor parameter)
    use_web,     \* CourseBuilder.use_web (constructor parameter)
    last         \* the last call made

vars == <<index, docs_store, sources, top_chunks, use_web, last>>

\* ------------------------------------------------------------ VectorBuilder

\* SentenceTransformer.encode: a fixed function from a text to a vector.
encode(t) == <<t % 2, t \div 2>>

\* Squared L2 distance, as IndexFlatL2 reports it.
L2(v, w) == (v[1] - w[1]) * (v[1] - w[1]) + (v[2] - w[2]) * (v[2] - w[2])

\* chunk_text: the splitter's pieces, stripped, the empty ones dropped.
chunk_text(text) == SelectSeq(text, LAMBDA c : c # Whitespace)

\* How many of the chunks are stored when the fail_at-th encode call raises
\* (fail_at = 0: no call raises).
Stored(chunks, fail_at) ==
    IF fail_at = 0 \/ fail_at > Len(chunks) THEN Len(chunks) ELSE fail_at - 1

\* The loop of add_text with its two appends out of step: the text is stored
\* before its vector is computed.
add_text_store_first(idx, store, text, fail_at) ==
    LET chunks == chunk_text(text)
        n      == Stored(chunks, fail_at)
        raised == n < Len(chunks)
    IN  [index      |-> idx \o [i \in 1..n |-> encode(chunks[i])],
         docs_store |-> store \o SubSeq(chunks, 1, IF raised THEN n + 1 ELSE n),
         raised     |-> raised,
         exc        |-> IF raised THEN "EncodeError" ELSE "",
         ret        |-> Len(chunks)]

\* add_text: per chunk, encode (which may raise), index.add, docs_store.append.
add_text(idx, store, text, fail_at) ==
    LET chunks == chunk_text(text)
        n      == Stored(chunks, fail_at)
        raised == n < Len(chunks)
    IN  [index      |-> idx \o [i \in 1..n |-> encode(chunks[i])],
         docs_store |-> store \o SubSeq(chunks, 1, n),
         raised     |-> raised,
         exc        |-> IF raised THEN "EncodeError" ELSE "",
         ret        |-> Len(chunks)]

\* faiss IndexFlatL2.search(qvec, k): the labels (0-based positions) of the k
\* nearest stored vectors, nearest first, padded with -1 when fewer than k
\* vectors are stored.  Equal distances may come in either order.
faiss_search(idx, qvec, k) ==
    LET n == Len(idx)
        m == Min(n, k)
        d(j) == L2(idx[j + 1], qvec)
        Nearest == {s \in [1..m -> 0..(n - 1)] :
                      /\ \A a, b \in 1..m : a < b => s[a] # s[b] /\ d(s[a]) <= d(s[b])
                      /\ \A j \in 0..(n - 1) :
                            (\A a \in 1..m : s[a] # j) => \A a \in 1..m : d(s[a]) <= d(j)}
    IN  {[i \in 1..k |-> IF i <= m THEN s[i] ELSE -1] : s \in Nearest}

\* Python list indexing with a 0-based, possibly negative, position.
PyItem(store, i) == IF i >= 0 THEN store[i + 1] ELSE store[Len(store) + i + 1]

\* [self.docs_store[i] for i in I[0] if i < len(self.docs_store)]
Pick(store, I) ==
    LET keep == SelectSeq(I, LAMBDA i : i < Len(store))
    IN  [j \in 1..Len(keep) |-> PyItem(store, keep[j])]

\* query with an empty index answered by an empty list.
query_empty_list(idx, store, question, top_k, enc_fails) ==
    IF Len(idx) = 0
    THEN {[raised |-> FALSE, exc |-> "", ret |-> <<>>]}
    ELSE IF enc_fails
    THEN {[raised |-> TRUE, exc |-> "EncodeError", ret |-> <<>>]}
    ELSE {[raised |-> FALSE, exc |-> "", ret |-> Pick(store, I)] :
            I \in faiss_search(idx, encode(question), top_k)}

\* query: every outcome of VectorBuilder.query on the index (idx, store).
query(idx, store, question, top_k, enc_fails) ==
    IF Len(idx) = 0
    THEN {[raised |-> TRUE, exc |-> "ValueError", ret |-> <<>>]}
    ELSE IF enc_fails
    THEN {[raised |-> TRUE, exc |-> "EncodeError", ret |-> <<>>]}
    ELSE {[raised |-> FALSE, exc |-> "", ret |-> Pick(store, I)] :
            I \in faiss_search(idx, encode(question), top_k)}

\* -------------------------------------------------------- WebContentFetcher

RECURSIVE Strip(_)
\* str.strip() after the whitespace runs are collapsed.
Strip(text) ==
    IF text = <<>> THEN <<>>
    ELSE IF Head(text) = Whitespace THEN Strip(Tail(text))
    ELSE IF text[Len(text)] = Whitespace THEN Strip(SubSeq(text, 1, Len(text) - 1))
    ELSE text

\* The string extract_text returns from its except clause.
ErrorText(url) == <<Marker, url>>

\* extract_text: the page's text, or the error string when the fetch raised.
extract_text(h) ==
    IF h.fetch = "ok" THEN Strip(h.page) ELSE ErrorText(h.url)

\* content.startswith of the warning sign
StartsWithMarker(content) == content # <<>> /\ Head(content) = Marker

RECURSIVE search_loop(_, _)
\* The loop of search over hits[i..]: the records appended, in order.
search_loop(hits, i) ==
    IF i > Len(hits) THEN <<>>
    ELSE LET h       == hits[i]
             content == extract_text(h)
             rest    == search_loop(hits, i + 1)
         IN  IF h.url = 0 THEN rest
             ELSE IF ~StartsWithMarker(content)
             THEN <<[rank |-> i, url |-> h.url, content |-> content]>> \o rest
             ELSE rest

\* search: the provider's call may raise, and then nothing was appended.
search(provider) ==
    IF provider.raises THEN <<>> ELSE search_loop(provider.hits, 1)

\* ------------------------------------------------------------- WebSearchRAG

RECURSIVE index_loop(_, _, _, _)
\* The loop of build_index over results[i..]; st.ret is total_chunks so far and
\* fail_at the encode call that will raise, counted from here.
index_loop(st, results, i, fail_at) ==
    IF i > Len(results) THEN [st EXCEPT !.fail_at = fail_at]
    ELSE IF results[i].content = <<>> THEN index_loop(st, results, i + 1, fail_at)
    ELSE LET r == add_text(st.index, st.docs_store, results[i].content, fail_at)
         IN  IF r.raised
             THEN [st EXCEPT !.index = r.index, !.docs_store = r.docs_store,
                             !.raised = TRUE, !.exc = r.exc]
             ELSE index_loop([st EXCEPT !.index = r.index, !.docs_store = r.docs_store,
                                        !.ret = st.ret + r.ret],
                             results, i + 1,
                             IF fail_at = 0 THEN 0 ELSE fail_at - r.ret)

\* build_index: search, capture the sources, add every result's content.
build_index(idx, store, provider, fail_at) ==
    LET results == search(provider)
        srcs    == [j \in 1..Min(MaxSources, Len(results)) |-> results[j].url]
    IN  index_loop([index |-> idx, docs_store |-> store, sources |-> srcs,
                    raised |-> FALSE, exc |-> "", ret |-> 0, fail_at |-> fail_at],
                   results, 1, fail_at)

\* What answer_with_web does once the index is built: query, then the
\* completion request, whose text it returns.
answer_tail(st, question, top_k, enc_fails, llm) ==
    {IF r.raised
     THEN [st EXCEPT !.raised = TRUE, !.exc = r.exc,
                     !.events = Append(st.events, "query")]
     ELSE IF llm = "raise"
     THEN [st EXCEPT !.raised = TRUE, !.exc = "LLMError",
                     !.events = st.events \o <<"query", "llm">>, !.context = r.ret]
     ELSE [st EXCEPT !.ret = [type |-> "str", val |-> <<2>>],
                     !.events = st.events \o <<"query", "llm">>, !.context = r.ret]
     : r \in query(st.index, st.docs_store, question, top_k, enc_fails)}

\* answer_with_web without the build of an empty index.
answer_with_web_no_build(idx, store, srcs, top_k, question, provider, fail_at, llm) ==
    answer_tail([index |-> idx, docs_store |-> store, sources |-> srcs,
                 raised |-> FALSE, exc |-> "", ret |-> [type |-> "none"],
                 events |-> <<>>, context |-> <<>>],
                question, top_k, fail_at = 1, llm)

\* answer_with_web with the build done on every call, whatever the index holds.
answer_with_web_always_build(idx, store, srcs, top_k, question, provider, fail_at, llm) ==
    LET b   == build_index(idx, store, provider, fail_at)
        st1 == [index |-> b.index, docs_store |-> b.docs_store, sources |-> b.sources,
                raised |-> FALSE, exc |-> "", ret |-> [type |-> "none"],
                events |-> <<"build_index">>, context |-> <<>>]
    IN  IF b.raised
        THEN {[st1 EXCEPT !.raised = TRUE, !.exc = b.exc]}
        ELSE answer_tail(st1, question, top_k, b.fail_at = 1, llm)

\* answer_with_web: every outcome of the call.  The fail_at-th encode call of
\* the whole call raises, the one of query included.
answer_with_web(idx, store, srcs, top_k, question, provider, fail_at, llm) ==
    LET st0 == [index |-> idx, docs_store |-> store, sources |-> srcs,
                raised |-> FALSE, exc |-> "", ret |-> [type |-> "none"],
                events |-> <<>>, context |-> <<>>]
    IN  IF Len(idx) = 0
        THEN LET b   == build_index(idx, store, provider, fail_at)
                 st1 == [st0 EXCEPT !.index = b.index, !.docs_store = b.docs_store,
                                    !.sources = b.sources, !.events = <<"build_index">>]
             IN  IF b.raised
                 THEN {[st1 EXCEPT !.raised = TRUE, !.exc = b.exc]}
                 ELSE answer_tail(st1, question, top_k, b.fail_at = 1, llm)
        ELSE answer_tail(st0, question, top_k, fail_at = 1, llm)

\* ------------------------------------------------------------ CourseBuilder

\* What a CourseBuilder object answers a lookup of: the attributes __init__
\* sets and the methods the class defines.
CourseBuilderAttrs ==
    {"ai_client", "module_generator", "learning_mode", "use_web", "web_rag",
     "get_web_context", "generate_lesson_content", "build_topic", "save_course_to_file"}

\* The classes an `except Exception` clause catches, among those raised here.
ExceptionSubclasses ==
    {"AttributeError", "ValueError", "TypeError", "KeyError", "EncodeError",
     "LLMError", "JSONDecodeError"}

\* {"context": "", "sources": []}
EmptyWebData == [type |-> "dict", context |-> <<>>, sources |-> <<>>]

\* The statement in the try block of get_web_context, result = self.web_rag_answer_with_web(topic):
\* the name is looked up on the CourseBuilder, which has no such attribute, so
\* the lookup raises and nothing is called.
web_rag_lookup ==
    IF "web_rag_answer_with_web" \in CourseBuilderAttrs
    THEN [raised |-> FALSE, exc |-> "", events |-> <<"web_rag_answer_with_web">>]
    ELSE [raised |-> TRUE, exc |-> "AttributeError", events |-> <<>>]

\* get_web_context with an except clause that catches ValueError only.
get_web_context_except_value_error(has_rag) ==
    IF ~has_rag
    THEN [raised |-> FALSE, exc |-> "", failed |-> FALSE, events |-> <<>>,
          ret |-> [type |-> "str", context |-> <<>>, sources |-> <<>>]]
    ELSE LET t == web_rag_lookup
         IN  IF t.raised /\ t.exc = "ValueError"
             THEN [raised |-> FALSE, exc |-> "", failed |-> TRUE, events |-> t.events,
                   ret |-> EmptyWebData]
             ELSE IF t.raised
             THEN [raised |-> TRUE, exc |-> t.exc, failed |-> TRUE, events |-> t.events,
                   ret |-> [type |-> "none", context |-> <<>>, sources |-> <<>>]]
             ELSE [raised |-> FALSE, exc |-> "", failed |-> FALSE, events |-> t.events,
                   ret |-> EmptyWebData]

\* get_web_context: "" without a pipeline; else the try block, whose every
\* exception the except clause turns into the empty context.
get_web_context(has_rag) ==
    IF ~has_rag
    THEN [raised |-> FALSE, exc |-> "", failed |-> FALSE, events |-> <<>>,
          ret |-> [type |-> "str", context |-> <<>>, sources |-> <<>>]]
    ELSE LET t == web_rag_lookup
         IN  IF t.raised /\ t.exc \in ExceptionSubclasses
             THEN [raised |-> FALSE, exc |-> "", failed |-> TRUE, events |-> t.events,
                   ret |-> EmptyWebData]
             ELSE IF t.raised
             THEN [raised |-> TRUE, exc |-> t.exc, failed |-> TRUE, events |-> t.events,
                   ret |-> [type |-> "none", context |-> <<>>, sources |-> <<>>]]
             ELSE [raised |-> FALSE, exc |-> "", failed |-> FALSE, events |-> t.events,
                   ret |-> EmptyWebData]

\* The text that introduces the web context in the lesson prompt.
ContextHeader == <<2>>

\* generate_lesson_content: the web data, the prompt, the completion request
\* and json.loads of its text.  web_rag is set exactly when use_web is.
generate_lesson_content(uw, topic, module_name, lesson_title, llm) ==
    LET web  == IF uw THEN get_web_context(uw)
                ELSE [raised |-> FALSE, exc |-> "", failed |-> FALSE, events |-> <<>>,
                      ret |-> EmptyWebData]
        evs  == IF uw THEN <<"get_web_context">> \o web.events ELSE <<>>
        base == [raised |-> TRUE, exc |-> "", events |-> evs, web_failed |-> web.failed,
                 web_data |-> web.ret,
                 prompt |-> [context_section |-> <<>>, sources |-> <<>>],
                 ret |-> [type |-> "none"]]
    IN  IF web.raised THEN [base EXCEPT !.exc = web.exc]
        ELSE IF web.ret.type # "dict" THEN [base EXCEPT !.exc = "TypeError"]
        ELSE LET web_context     == web.ret.context
                 context_section == IF web_context # <<>>
                                    THEN ContextHeader \o web_context ELSE <<>>
                 sent == [base EXCEPT !.events = Append(evs, "llm"),
                                      !.prompt = [context_section |-> context_section,
                                                  sources |-> web.ret.sources]]
             IN  IF llm = "raise" THEN [sent EXCEPT !.exc = "LLMError"]
                 ELSE IF llm = "malformed" THEN [sent EXCEPT !.exc = "JSONDecodeError"]
                 ELSE [sent EXCEPT !.raised = FALSE,
                                   !.ret = [type |-> "dict", title |-> lesson_title]]

Outcome(r) == IF r.raised THEN "raise" ELSE "ok"

\* ---------------------------------------------------------- ModuleGenerator

\* Entry i of the module list the LLM wrote: title i under "section", or an
\* entry that lacks that key.
ModuleEntry(i, has_section) == IF has_section THEN [section |-> i] ELSE [module |-> i]

\* The answers to the module-list request: the request raising, text that is not
\* the expected JSON, or a list of up to MaxModule entries, at most one of which
\* lacks "section".
ModuleAnswers ==
    {[kind |-> "raise", modules |-> <<>>], [kind |-> "malformed", modules |-> <<>>]}
    \cup {[kind |-> "json",
           modules |-> IF n = 0 THEN <<>> ELSE [i \in 1..n |-> ModuleEntry(i, i # k)]] :
          n \in 0..MaxModule, k \in 0..MaxModule}

\* A lesson title the LLM wrote.
LessonTitle(j) == [format |-> "{}", arg |-> j]

\* The answers to a lesson-titles request: the request raising, text that is not
\* the expected JSON, or a list of up to MaxLesson titles.
LessonsAnswers ==
    {[kind |-> "raise", lessons |-> <<>>], [kind |-> "malformed", lessons |-> <<>>]}
    \cup {[kind |-> "json",
           lessons |-> IF n = 0 THEN <<>> ELSE [j \in 1..n |-> LessonTitle(j)]] :
          n \in 0..MaxLesson}

\* generate_modules: the completion request is outside the try block, the
\* parse and the ["modules"] lookup inside it.
generate_modules(ans) ==
    IF ans.kind = "raise" THEN [raised |-> TRUE, exc |-> "LLMError", ret |-> <<>>]
    ELSE IF ans.kind = "malformed" THEN [raised |-> FALSE, exc |-> "", ret |-> <<>>]
    ELSE [raised |-> FALSE, exc |-> "", ret |-> ans.modules]

\* generate_lessons: the same shape, with the ["lessons"] lookup.
generate_lessons(ans) ==
    IF ans.kind = "raise" THEN [raised |-> TRUE, exc |-> "LLMError", ret |-> <<>>]
    ELSE IF ans.kind = "malformed" THEN [raised |-> FALSE, exc |-> "", ret |-> <<>>]
    ELSE [raised |-> FALSE, exc |-> "", ret |-> ans.lessons]

\* ------------------------------------------------- CourseBuilder.build_topic

\* {} and {topic: {"menu": menu}}
EmptyCourse == [keys |-> <<>>, menu |-> <<>>]
Course(topic, menu) == [keys |-> <<topic>>, menu |-> menu]

\* The fallback titles with the last one first.
fallback_lessons_best_practices_first(module_title) ==
    << [format |-> "{} Best Practices", arg |-> module_title],
       [format |-> "Introduction to {}", arg |-> module_title],
       [format |-> "Advanced {} Concepts", arg |-> module_title] >>

\* The titles build_topic falls back to for a module without lessons.
fallback_lessons(module_title) ==
    << [format |-> "Introduction to {}", arg |-> module_title],
       [format |-> "Advanced {} Concepts", arg |-> module_title],
       [format |-> "{} Best Practices", arg |-> module_title] >>

\* The outcomes of the per-lesson requests of one build, call after call,
\* repeating with the period of the fallback list.
Scripts == [1..Len(fallback_lessons(1)) -> LessonLLMOutcomes]

\* The lesson step with an except clause that also empties the module's items.
append_lesson_reset_on_error(items, r) ==
    IF r.raised THEN <<>> ELSE Append(items, r.ret)

\* The try block of the lesson loop: the content is appended unless
\* generate_lesson_content raised.
append_lesson(items, r) ==
    IF r.raised THEN items ELSE Append(items, r.ret)

\* One pass of the lesson loop, r being what generate_lesson_content did: the
\* except clause catches every Exception.
lesson_step(acc, lesson_title, r) ==
    IF r.raised /\ r.exc \notin ExceptionSubclasses
    THEN [acc EXCEPT !.raised = TRUE, !.exc = r.exc]
    ELSE [acc EXCEPT !.items = append_lesson(@, r),
                     !.attempts = Append(@, [title |-> lesson_title,
                                             outcome |-> Outcome(r)])]

\* The lesson loop of one module, from lesson j on; c is the number of
\* per-lesson requests made before this module.
RECURSIVE lesson_loop(_, _, _, _, _, _, _, _)
lesson_loop(uw, topic, module_title, lessons, script, c, j, acc) ==
    IF j > Len(lessons) \/ acc.raised THEN acc
    ELSE lesson_loop(uw, topic, module_title, lessons, script, c, j + 1,
                     lesson_step(acc, lessons[j],
                                 generate_lesson_content(
                                     uw, topic, module_title, lessons[j],
                                     script[((c + j - 1) % Len(script)) + 1])))

\* The end of one pass of the module loop, ll being what the lesson loop did:
\* module_dict is appended to the menu.
module_step(st, module_title, returned, ll) ==
    IF ll.raised THEN [st EXCEPT !.raised = TRUE, !.exc = ll.exc]
    ELSE [st EXCEPT !.menu = Append(@, [module |-> module_title,
                                        section |-> module_title,
                                        items |-> ll.items]),
                    !.trace = Append(@, [lessons |-> returned,
                                         attempts |-> ll.attempts])]

\* The module loop, from module i on.
RECURSIVE module_loop(_, _, _, _, _, _, _, _)
module_loop(uw, topic, modules, lessons_answers, script, c, i, st) ==
    IF i > Len(modules) \/ st.raised THEN st
    ELSE IF "section" \notin DOMAIN modules[i]
    THEN [st EXCEPT !.raised = TRUE, !.exc = "KeyError"]
    ELSE LET module_title == modules[i].section
             gl           == generate_lessons(lessons_answers[i])
             lessons      == IF gl.ret = <<>> THEN fallback_lessons(module_title)
                             ELSE gl.ret
         IN  IF gl.raised THEN [st EXCEPT !.raised = TRUE, !.exc = gl.exc]
             ELSE module_loop(uw, topic, modules, lessons_answers, script,
                              c + Len(lessons), i + 1,
                              module_step(st, module_title, gl.ret,
                                          lesson_loop(uw, topic, module_title, lessons,
                                                      script, c, 1,
                                                      [items |-> <<>>, attempts |-> <<>>,
                                                       raised |-> FALSE, exc |-> ""])))

\* What build_topic returns or raises after the module loop.
course_modules(topic, modules, st) ==
    [raised |-> st.raised, exc |-> st.exc,
     ret |-> IF st.raised THEN EmptyCourse ELSE Course(topic, st.menu),
     modules |-> modules, trace |-> st.trace]

\* build_topic: the module list, the hard failure on an empty one, then the
\* module loop.  modules is what generate_modules returned, trace what each
\* module's lesson loop did.
build_topic(uw, topic, modules_answer, lessons_answers, script) ==
    LET g == generate_modules(modules_answer)
    IN  IF g.raised
        THEN [raised |-> TRUE, exc |-> g.exc, ret |-> EmptyCourse, modules |-> <<>>,
              trace |-> <<>>]
        ELSE IF g.ret = <<>>
        THEN [raised |-> FALSE, exc |-> "", ret |-> EmptyCourse, modules |-> <<>>,
              trace |-> <<>>]
        ELSE course_modules(topic, g.ret,
                            module_loop(uw, topic, g.ret, lessons_answers, script, 0, 1,
                                        [menu |-> <<>>, trace |-> <<>>,
                                         raised |-> FALSE, exc |-> ""]))

\* ------------------------------------------------------------------ routers

\* save_course_to_file: "" for an empty course; else the file is written under
\* courses_json, named by filename or, without one, after the first key.
save_course_to_file(course_data, filename) ==
    IF course_data = EmptyCourse
    THEN [filepath |-> <<>>, written |-> <<>>]
    ELSE LET name == IF filename # <<>> THEN filename
                     ELSE <<[format |-> "{}_course.json", arg |-> <<course_data.keys[1]>>]>>
         IN  [filepath |-> <<"courses_json">> \o name,
              written |-> <<[filepath |-> <<"courses_json">> \o name,
                             course_data |-> course_data]>>]

\* The topic parameter of create_course: a str, or a list of one or two topics.
TopicParams ==
    {[single |-> TRUE, topics |-> <<t>>] : t \in 1..MaxTopic}
    \cup {[single |-> FALSE, topics |-> <<t>>] : t \in 1..MaxTopic}
    \cup {[single |-> FALSE, topics |-> <<t, u>>] : t \in 1..MaxTopic, u \in 1..MaxTopic}

\* What the LLM does during the build of one topic of a request: an answer to
\* the module-list request, one answer to every lesson-titles request (raising,
\* no title, or MaxLesson titles) and one outcome of every per-lesson request.
RouterLLMs ==
    {[modules |-> m, lessons |-> l, script |-> s] :
        m \in ModuleAnswers,
        l \in {a \in LessonsAnswers : a.kind # "malformed" /\ Len(a.lessons) \in {0, MaxLesson}},
        s \in {t \in Scripts : \A k \in DOMAIN t : t[k] = t[1]}}

\* course_builder.build_topic(t) of a request, the LLM doing llm.
build_for(uw, t, llm) ==
    build_topic(uw, t, llm.modules,
                [i \in 1..Len(llm.modules.modules) |-> llm.lessons], llm.script)

\* The file name create_course passes to save_course_to_file for topic t.
current_filename(has_filename, topics, t) ==
    IF has_filename
    THEN IF Len(topics) > 1 THEN <<[format |-> "{base}_{}{ext}", arg |-> <<t>>]>>
         ELSE <<[format |-> "{filename}", arg |-> <<>>]>>
    ELSE <<[format |-> "{}_course.json", arg |-> <<t>>]>>

\* The topic loop of create_course, from topic i on: a builder, its build and
\* the save for each topic; an exception ends the loop.
RECURSIVE topics_loop(_, _, _, _, _, _)
topics_loop(uw, topics, has_filename, llms, i, acc) ==
    IF i > Len(topics) THEN acc
    ELSE LET t == topics[i]
             step(b, f) ==
                 IF b.raised
                 THEN [acc EXCEPT !.raised = TRUE, !.exc = b.exc,
                                  !.builds = Append(@, [raised |-> TRUE,
                                                        modules |-> b.modules])]
                 ELSE [acc EXCEPT !.all_course_data =
                                      [k \in DOMAIN @ \cup {t} |->
                                          IF k = t THEN b.ret ELSE @[k]],
                                  !.filepaths = Append(@, f.filepath),
                                  !.written = @ \o f.written,
                                  !.builds = Append(@, [raised |-> FALSE,
                                                        modules |-> b.modules])]
         IN  CHOOSE r \in
                 {IF a.raised THEN a
                  ELSE topics_loop(uw, topics, has_filename, llms, i + 1, a) :
                      a \in {step(b, save_course_to_file(
                                        b.ret, current_filename(has_filename, topics, t))) :
                             b \in {build_for(uw, t, llms[i])}}} : TRUE

\* HTTPException(status_code=500), what both endpoints raise on any exception.
HTTP500 == [status |-> "error", status_code |-> 500]

\* create_course: the topic loop, then the response, which says "success"
\* whenever no exception was raised.
create_course(topic, has_filename, uw, llms) ==
    LET response(acc) ==
            IF acc.raised /\ acc.exc \in ExceptionSubclasses
            THEN [raised |-> TRUE, exc |-> "HTTPException", ret |-> HTTP500,
                  written |-> acc.written, builds |-> acc.builds]
            ELSE [raised |-> FALSE, exc |-> "",
                  ret |-> IF topic.single
                          THEN [status |-> "success", topics |-> topic.topics,
                                web_search_used |-> uw, filepaths |-> acc.filepaths[1],
                                topic |-> topic.topics[1], filepath |-> acc.filepaths[1],
                                course_data |-> acc.all_course_data[topic.topics[1]]]
                          ELSE [status |-> "success", topics |-> topic.topics,
                                web_search_used |-> uw, filepaths |-> acc.filepaths,
                                courses_data |-> acc.all_course_data],
                  written |-> acc.written, builds |-> acc.builds]
    IN  CHOOSE r \in
            {response(acc) :
                acc \in {topics_loop(uw, topic.topics, has_filename, llms, 1,
                                     [raised |-> FALSE, exc |-> "", all_course_data |-> <<>>,
                                      filepaths |-> <<>>, written |-> <<>>,
                                      builds |-> <<>>])}} : TRUE

\* get_course: a builder, its build, and the response.
get_course(topic, uw, llm) ==
    LET response(b) ==
            IF b.raised /\ b.exc \in ExceptionSubclasses
            THEN [raised |-> TRUE, exc |-> "HTTPException", ret |-> HTTP500,
                  builds |-> <<[raised |-> TRUE, modules |-> b.modules]>>]
            ELSE [raised |-> FALSE, exc |-> "",
                  ret |-> [status |-> "success", topic |-> topic, course_data |-> b.ret],
                  builds |-> <<[raised |-> FALSE, modules |-> b.modules]>>]
    IN  CHOOSE r \in {response(b) : b \in {build_for(uw, topic, llm)}} : TRUE

\* ------------------------------------------------------------------ actions

\* A WebSearchRAG as constructed, with the top_chunks the caller gave.
Init ==
    /\ index = <<>>
    /\ docs_store = <<>>
    /\ sources = <<>>
    /\ top_chunks = DefaultTopChunks
    /\ use_web = FALSE
    /\ last = [op |-> "init"]

\* A call of vb.add_text(text).
AddText ==
    \E text \in Texts, fail_at \in 0..MaxFailAt :
        \E r \in {add_text(index, docs_store, text, fail_at)} :
            /\ Len(r.docs_store) <= MaxStore
            /\ index' = r.index
            /\ docs_store' = r.docs_store
            /\ last' = [op |-> "add_text", outcome |-> Outcome(r), exc |-> r.exc,
                        ret |-> r.ret, pre |-> Len(docs_store)]
            /\ UNCHANGED <<sources, top_chunks, use_web>>

\* A call of vb.query(question, top_k).
Query ==
    \E question \in Pieces, top_k \in 1..MaxTopK, enc_fails \in BOOLEAN :
        \E r \in query(index, docs_store, question, top_k, enc_fails) :
            /\ last' = [op |-> "query", arg |-> [question |-> question, top_k |-> top_k],
                        outcome |-> Outcome(r), exc |-> r.exc, ret |-> r.ret,
                        pre |-> [index |-> index, docs_store |-> docs_store]]
            /\ UNCHANGED <<index, docs_store, sources, top_chunks, use_web>>

\* A call of rag.build_index(query).
BuildIndex ==
    \E provider \in RagProviders, fail_at \in 0..MaxFailAt :
        \E r \in {build_index(index, docs_store, provider, fail_at)} :
            /\ Len(r.docs_store) <= MaxStore
            /\ index' = r.index
            /\ docs_store' = r.docs_store
            /\ sources' = r.sources
            /\ last' = [op |-> "build_index", outcome |-> Outcome(r), exc |-> r.exc,
                        ret |-> r.ret, pre |-> Len(docs_store)]
            /\ UNCHANGED <<top_chunks, use_web>>

\* A call of rag.answer_with_web(query).  The provider is drawn only where the
\* call reads it.
AnswerWithWeb ==
    \E question \in Pieces, fail_at \in 0..(MaxFailAt + 1), llm \in LLMOutcomes :
        \E provider \in IF Len(index) = 0 THEN RagProviders ELSE {[raises |-> FALSE, hits |-> <<>>]} :
            \E r \in answer_with_web(index, docs_store, sources, top_chunks, question,
                                     provider, fail_at, llm) :
                /\ Len(r.docs_store) <= MaxStore
                /\ index' = r.index
                /\ docs_store' = r.docs_store
                /\ sources' = r.sources
                /\ last' = [op |-> "answer_with_web", arg |-> question,
                            outcome |-> Outcome(r), exc |-> r.exc, ret |-> r.ret,
                            events |-> r.events, context |-> r.context,
                            pre |-> Len(index),
                            before |-> [index |-> index, docs_store |-> docs_store,
                                        sources |-> sources]]
                /\ UNCHANGED <<top_chunks, use_web>>

Next ==
    \/ AddText
    \/ Query
    \/ BuildIndex
    \/ AnswerWithWeb

Spec == Init /\ [][Next]_vars

\* ---------------------------------------------------------------- SpecFetch

\* A call of fetcher.search(query).
Search ==
    \E provider \in FetchProviders :
        /\ last' = [op |-> "search", arg |-> provider, outcome |-> "ok", exc |-> "",
                    ret |-> search(provider)]
        /\ UNCHANGED <<index, docs_store, sources, top_chunks, use_web>>

SpecFetch == Init /\ [][Search]_vars

\* -------------------------------------------------------------- SpecBuilder

\* A CourseBuilder as constructed, with the use_web the caller gave; its
\* WebSearchRAG, if any, is the default one.
InitBuilder ==
    /\ index = <<>>
    /\ docs_store = <<>>
    /\ sources = <<>>
    /\ top_chunks = DefaultTopChunks
    /\ use_web \in BOOLEAN
    /\ last = [op |-> "init"]

\* A call of builder.generate_lesson_content(topic, module_name, lesson_title).
GenerateLessonContent ==
    \E topic \in 1..MaxTopic, module_name \in 1..MaxModule, lesson_title \in 1..MaxLesson,
       llm \in LessonLLMOutcomes :
        \E r \in {generate_lesson_content(use_web, topic, module_name, lesson_title, llm)} :
            /\ last' = [op |-> "generate_lesson_content",
                        arg |-> [topic |-> topic, module_name |-> module_name,
                                 lesson_title |-> lesson_title],
                        outcome |-> Outcome(r), exc |-> r.exc, ret |-> r.ret,
                        events |-> r.events, web_failed |-> r.web_failed,
                        web_data |-> r.web_data, prompt |-> r.prompt]
            /\ UNCHANGED <<index, docs_store, sources, top_chunks, use_web>>

\* A call of builder.web_rag.answer_with_web(query); web_rag is None without use_web.
WebRagAnswerWithWeb == use_web /\ AnswerWithWeb

NextBuilder ==
    \/ GenerateLessonContent
    \/ WebRagAnswerWithWeb

SpecBuilder == InitBuilder /\ [][NextBuilder]_vars

\* --------------------------------------------------------------- SpecCourse

\* CourseBuilder(use_web=uw): a new builder, with a new WebSearchRAG if any.
NewCourseBuilder ==
    /\ last.op # "init"
    /\ index' = <<>>
    /\ docs_store' = <<>>
    /\ sources' = <<>>
    /\ use_web' \in BOOLEAN
    /\ last' = [op |-> "init"]
    /\ UNCHANGED top_chunks

\* The call builder.build_topic(topic) on a builder just constructed, as the
\* routers make it: one builder for each topic.
BuildTopic ==
    /\ last.op = "init"
    /\ \E topic \in 1..MaxTopic, modules_answer \in ModuleAnswers, script \in Scripts :
        \E lessons_answers \in [1..Len(modules_answer.modules) -> LessonsAnswers] :
            \E r \in {build_topic(use_web, topic, modules_answer, lessons_answers, script)} :
                /\ last' = [op |-> "build_topic", arg |-> topic,
                            llm |-> [modules |-> modules_answer,
                                     lessons |-> lessons_answers, script |-> script],
                            outcome |-> Outcome(r), exc |-> r.exc, ret |-> r.ret,
                            modules |-> r.modules, trace |-> r.trace]
                /\ UNCHANGED <<index, docs_store, sources, top_chunks, use_web>>

NextCourse ==
    \/ NewCourseBuilder
    \/ BuildTopic

SpecCourse == InitBuilder /\ [][NextCourse]_vars

\* --------------------------------------------------------------- SpecRouter

\* The request handled is answered; the application keeps nothing of it.
Respond ==
    /\ last.op # "init"
    /\ last' = [op |-> "init"]
    /\ UNCHANGED <<index, docs_store, sources, top_chunks, use_web>>

\* POST create_course, one request at a time.  Each topic has its own builder,
\* whose pipeline is never entered; use_web is that of the builders.
CreateCourse ==
    /\ last.op = "init"
    /\ \E topic \in TopicParams, has_filename \in BOOLEAN, uw \in BOOLEAN :
        \E llms \in [1..Len(topic.topics) -> RouterLLMs] :
            \E r \in {create_course(topic, has_filename, uw, llms)} :
                /\ use_web' = uw
                /\ last' = [op |-> "create_course",
                            arg |-> [topic |-> topic, has_filename |-> has_filename,
                                     use_web |-> uw],
                            outcome |-> Outcome(r), exc |-> r.exc, ret |-> r.ret,
                            written |-> r.written, builds |-> r.builds]
                /\ UNCHANGED <<index, docs_store, sources, top_chunks>>

\* GET /{topic}, one request at a time.
GetCourse ==
    /\ last.op = "init"
    /\ \E topic \in 1..MaxTopic, uw \in BOOLEAN, llm \in RouterLLMs :
        \E r \in {get_course(topic, uw, llm)} :
            /\ use_web' = uw
            /\ last' = [op |-> "get_course", arg |-> [topic |-> topic, use_web |-> uw],
                        outcome |-> Outcome(r), exc |-> r.exc, ret |-> r.ret,
                        builds |-> r.builds]
            /\ UNCHANGED <<index, docs_store, sources, top_chunks>>

NextRouter ==
    \/ CreateCourse
    \/ GetCourse
    \/ Respond

SpecRouter == Init /\ [][NextRouter]_vars

\* ------------------------------------------------------------------- claims

Range(s) == {s[i] : i \in DOMAIN s}
Count(s, e) == Cardinality({i \in DOMAIN s : s[i] = e})

\* C1: after any sequence of add_text, query, build_index and answer_with_web
\* calls, also ones that end in an exception of the embedding step, the index
\* holds as many vectors as docs_store holds chunks, the i-th vector being
\* that of the i-th chunk; and a call that adds documents whose chunking
\* yields C chunks raises both counts by C.
C1_VectorCountEqualsChunkCount ==
    /\ Len(index) = Len(docs_store)
    /\ \A i \in 1..Len(index) : index[i] = encode(docs_store[i])
    /\ (last.op \in {"add_text", "build_index"} /\ last.outcome = "ok")
          => Len(docs_store) = last.pre + last.ret

\* An add_text that stored a chunk and then raised on the next.
C1_Witness ==
    /\ last.op = "add_text"
    /\ last.outcome = "raise"
    /\ Len(docs_store) > last.pre

\* C2: a query on an index without vectors raises ValueError, whatever the
\* question and top_k, and leaves the index and docs_store as they were
\* before the call.
C2_QueryOnEmptyIndexFails ==
    (last.op = "query" /\ Len(last.pre.index) = 0)
        => /\ last.outcome = "raise"
           /\ last.exc = "ValueError"
           /\ index = last.pre.index
           /\ docs_store = last.pre.docs_store

\* A query on the index as constructed, ended by the ValueError.
C2_Witness ==
    /\ last.op = "query"
    /\ Len(last.pre.index) = 0
    /\ last.arg.top_k > 1
    /\ last.exc = "ValueError"

\* C3: a query with top_k above the number of stored chunks returns every
\* stored chunk exactly once: as many texts as are stored.
C3_TopKAboveCountReturnsAll ==
    (last.op = "query" /\ last.outcome = "ok" /\ last.arg.top_k > Len(docs_store))
        => Len(last.ret) = Len(docs_store)

\* C4: a query on an index with a chunk returns at most top_k texts, in order
\* of non-decreasing L2 distance between their vectors and the question's.
C4_AtMostKNearestFirst ==
    (last.op = "query" /\ last.outcome = "ok")
        => /\ Len(last.ret) <= last.arg.top_k
           /\ \A a, b \in 1..Len(last.ret) :
                 a < b => L2(encode(last.ret[a]), encode(last.arg.question))
                            <= L2(encode(last.ret[b]), encode(last.arg.question))

\* C5: answer_with_web on an empty index calls build_index exactly once, before
\* the query and the completion request; on an index with a chunk it does not
\* call build_index.
C5_BuildOnceBeforeAnswering ==
    last.op = "answer_with_web"
        => IF last.pre = 0
           THEN Count(last.events, "build_index") = 1 /\ last.events[1] = "build_index"
           ELSE Count(last.events, "build_index") = 0

\* A call on an empty index that built it, queried it and got its completion.
C5_Witness ==
    /\ last.op = "answer_with_web"
    /\ last.pre = 0
    /\ last.events = <<"build_index", "query", "llm">>

\* C6: answer_with_web requests a completion only with an index that holds a
\* chunk and a context that is not empty; when the build indexed nothing the
\* call raises and requests no completion.
C6_NoCompletionOnEmptyIndex ==
    last.op = "answer_with_web"
        => /\ "llm" \in Range(last.events) => Len(index) >= 1 /\ last.context # <<>>
           /\ Len(index) = 0 => last.outcome = "raise" /\ "llm" \notin Range(last.events)

\* A build that indexed nothing, then the query's ValueError.
C6_Witness ==
    /\ last.op = "answer_with_web"
    /\ Len(index) = 0
    /\ last.events = <<"build_index", "query">>
    /\ last.exc = "ValueError"

\* A hit whose page was fetched and its text extracted.
Succeeded(h) == h.url # 0 /\ h.fetch = "ok"

\* C7: search returns exactly the hits whose fetch and extraction succeeded, in
\* rank order.
C7_SearchKeepsExactlyTheFetched ==
    (last.op = "search" /\ ~last.arg.raises)
        => [j \in 1..Len(last.ret) |-> last.ret[j].rank]
             = SelectSeq([i \in 1..Len(last.arg.hits) |-> i],
                         LAMBDA i : Succeeded(last.arg.hits[i]))

\* C8: an answer_with_web that succeeds returns the answer text together with
\* the sources captured when the index was built.
C8_AnswerCarriesSources ==
    (last.op = "answer_with_web" /\ last.outcome = "ok")
        => last.ret.type = "dict" /\ last.ret.sources = sources

C10_LessonPromptIsEnriched ==
    (last.op = "generate_lesson_content" /\ use_web)
        => "answer_with_web" \in Range(last.events)

\* The contents generate_lesson_content returned for the attempts that did not
\* raise, in the order of the attempts.
ContentsOfSucceeded(attempts) ==
    LET ok == SelectSeq(attempts, LAMBDA a : a.outcome = "ok")
    IN  [k \in 1..Len(ok) |-> [type |-> "dict", title |-> ok[k].title]]

\* The titles build_topic is to attempt for a module, given what generate_lessons
\* returned for it.
TitlesFor(returned, module_title) ==
    IF returned # <<>> THEN returned
    ELSE << [format |-> "Introduction to {}", arg |-> module_title],
            [format |-> "Advanced {} Concepts", arg |-> module_title],
            [format |-> "{} Best Practices", arg |-> module_title] >>

\* C11: in a build_topic that returns a course, every lesson of every module is
\* attempted, in lesson order, whatever happened to the lessons before it, and
\* the module's items are exactly the contents of the lessons that did not
\* raise (provider error or malformed JSON), in lesson order.
C11_FailedLessonIsSkipped ==
    (last.op = "build_topic" /\ last.outcome = "ok" /\ last.ret # EmptyCourse)
        => \A i \in 1..Len(last.ret.menu) :
               LET attempts == last.trace[i].attempts
                   titles   == TitlesFor(last.trace[i].lessons, last.ret.menu[i].section)
               IN  /\ Len(attempts) = Len(titles)
                   /\ \A j \in 1..Len(titles) : attempts[j].title = titles[j]
                   /\ Len(last.ret.menu[i].items) = Len(ContentsOfSucceeded(attempts))
                   /\ \A k \in 1..Len(last.ret.menu[i].items) :
                          last.ret.menu[i].items[k] = ContentsOfSucceeded(attempts)[k]

\* A module whose first lesson gave malformed JSON, whose second lesson's
\* request raised, and whose third lesson was generated and appended.
C11_Witness ==
    /\ last.op = "build_topic"
    /\ last.outcome = "ok"
    /\ last.ret # EmptyCourse
    /\ last.llm.script = <<"malformed", "raise", "json">>
    /\ Len(last.trace[1].attempts) = 3
    /\ last.trace[1].attempts[1].outcome = "raise"
    /\ last.trace[1].attempts[3].outcome = "ok"
    /\ Len(last.ret.menu[1].items) = 1

\* C12: build_topic returns normally whatever the module-list request, the
\* lesson-titles requests and the per-lesson requests do (provider error,
\* malformed JSON, a module entry lacking "section"), and it returns the empty
\* course only when module generation yielded no module.
C12_BuildTopicNeverAborts ==
    last.op = "build_topic"
        => /\ last.outcome = "ok"
           /\ (last.ret = EmptyCourse) <=> (last.modules = <<>>)

\* C13: a request to create_course or get_course in which module generation
\* yielded no module for some topic is answered with an explicit failure: an
\* HTTP error, or a response whose status is not "success".
C13_ZeroModulesIsAFailureResponse ==
    (/\ last.op \in {"create_course", "get_course"}
     /\ \E i \in 1..Len(last.builds) :
            ~last.builds[i].raised /\ last.builds[i].modules = <<>>)
        => \/ last.outcome = "raise"
           \/ last.ret.status # "success"

\* C14: once the index holds a chunk, a call of answer_with_web, whatever its
\* query, does not call build_index (so no search and no add_text) and leaves
\* the index, docs_store and the sources as they were before the call.
C14_AnswerLeavesBuiltIndexAlone ==
    (last.op = "answer_with_web" /\ last.pre >= 1)
        => /\ "build_index" \notin Range(last.events)
           /\ index = last.before.index
           /\ docs_store = last.before.docs_store
           /\ sources = last.before.sources

\* An answer given from an index and sources that an earlier call built.
C14_Witness ==
    /\ last.op = "answer_with_web"
    /\ last.pre >= 1
    /\ last.outcome = "ok"
    /\ sources # <<>>
    /\ last.events = <<"query", "llm">>

\* C15: the menu of a course build_topic returns has one entry per module that
\* generate_modules returned, in the same order, also where every lesson of
\* the module failed; and for a module for which generate_lessons returned no
\* title, the three fallback titles are attempted, in their order.
C15_MenuFollowsModules ==
    (last.op = "build_topic" /\ last.outcome = "ok" /\ last.ret # EmptyCourse)
        => /\ Len(last.ret.menu) = Len(last.modules)
           /\ \A i \in 1..Len(last.modules) :
                  /\ last.ret.menu[i].section = last.modules[i].section
                  /\ last.ret.menu[i].module = last.modules[i].section
                  /\ last.trace[i].lessons = <<>>
                         => [j \in 1..Len(last.trace[i].attempts) |->
                                 last.trace[i].attempts[j].title]
                            = << [format |-> "Introduction to {}",
                                  arg |-> last.modules[i].section],
                                 [format |-> "Advanced {} Concepts",
                                  arg |-> last.modules[i].section],
                                 [format |-> "{} Best Practices",
                                  arg |-> last.modules[i].section] >>

\* A course of two modules: every lesson of the first failed, and the second
\* had no titles, so that the fallback titles were attempted for it.
C15_Witness ==
    /\ last.op = "build_topic"
    /\ last.outcome = "ok"
    /\ Len(last.modules) = 2
    /\ Len(last.ret.menu) = 2
    /\ last.trace[1].lessons # <<>>
    /\ last.ret.menu[1].items = <<>>
    /\ last.trace[2].lessons = <<>>
    /\ Len(last.trace[2].attempts) = 3
    /\ last.ret.menu[2].items # <<>>

====
